---- MODULE Spec2Model ----
(***************************************************************************)
(* Landmark alignment transforms of openbr/plugins/landmarks.cpp:          *)
(* ProcrustesTransform (train / project / store / load) and                *)
(* DelaunayTransform (project), and the feature induction transform of     *)
(* openbr/plugins/tree.cpp: ForestInductionTransform (train / load /       *)
(* project, with the traversal loop of fillNodes step by step).            *)
(*                                                                         *)
(* Numbers.  The code computes in float/double.  The model computes in     *)
(* integers: point coordinates are counted in units of 1/Sub pixel, and    *)
(* the results of divisions and square roots are kept in fixed point with  *)
(* Prec units per 1.0, rounded to nearest.                                 *)
(***************************************************************************)
EXTENDS Integers, Sequences, FiniteSets, TLC

VARIABLES
    obj,        \* which transform object this run constructs and drives
    draw,       \* DelaunayTransform::draw, a property set at construction
    meanShape,  \* ProcrustesTransform::meanShape, a sequence of rows <<x, y>>
    stream,     \* what store last wrote to the QDataStream (<<>>: nothing yet)
    stored,     \* history: the matrix that was in meanShape when stream was written
    trained,    \* history: a train or a load has set meanShape
    tainted,    \* history: some call went on through undefined behaviour
    crashed,    \* the process was ended by a failed assertion or a fault
    calls,      \* number of calls made on the object so far
    call,       \* the last call: operation, argument, state before, result
    forest,     \* ForestInductionTransform::forest, a sequence of trees
    gen,        \* history: how many forests the object has held
    nodes,      \* ForestInductionTransform::nodes, a list of lists of node pointers
    totalSize,  \* ForestInductionTransform::totalSize
    sizeAtStart,\* history: what totalSize held after construction
    pc,         \* where fillNodes stands ("idle": no call in progress)
    treeIndex,  \* fillNodes: i, counted from 1
    node,       \* fillNodes: node
    parent      \* fillNodes: parent

forestVars == <<forest, gen, nodes, totalSize, sizeAtStart, pc, treeIndex, node, parent>>

vars == <<obj, draw, meanShape, stream, stored, trained, tainted, crashed, calls, call,
          forestVars>>

----------------------------------------------------------------------------
(* Bounds of the model and constants of the program *)

MaxCalls == 3           \* calls made on one transform object
MaxTrain == 2           \* templates in one training list
Sub == 2                \* coordinate units per pixel
Prec == 100             \* fixed-point units per 1.0
RefRadius == 150        \* norm/150.
RefOffset == 50         \* +50

----------------------------------------------------------------------------
(* Arithmetic *)

Abs(a) == IF a < 0 THEN -a ELSE a

\* a / b rounded to nearest, b > 0 (floating-point division)
Div(a, b) ==
    IF a >= 0 THEN (2 * a + b) \div (2 * b) ELSE -((2 * (-a) + b) \div (2 * b))

RECURSIVE SqrtSearch(_, _, _)
SqrtSearch(n, lo, hi) ==
    IF lo >= hi THEN lo
    ELSE LET mid == (lo + hi + 1) \div 2
         IN IF mid * mid <= n THEN SqrtSearch(n, mid, hi)
            ELSE SqrtSearch(n, lo, mid - 1)

\* floor of the square root, 0 <= n < 2^31
ISqrt(n) == SqrtSearch(n, 0, 46340)

RECURSIVE SumSeq(_)
SumSeq(s) == IF s = <<>> THEN 0 ELSE Head(s) + SumSeq(Tail(s))

----------------------------------------------------------------------------
(* Templates: the landmark points and bounding rectangles of br::File *)

\* coordinates in units of 1/Sub pixel
P1 == <<3, 2>>      \* (1.5, 1.0)
P2 == <<7, 4>>      \* (3.5, 2.0)
P3 == <<5, 5>>      \* (2.5, 2.5)
P4 == <<8, 4>>      \* (4.0, 2.0)

R1 == [x |-> 2, y |-> 2, w |-> 4, h |-> 4]      \* (1, 1) .. (3, 3)
R2 == [x |-> 4, y |-> 2, w |-> 2, h |-> 3]      \* (2, 1) .. (3, 2.5)
R3 == [x |-> 1, y |-> 3, w |-> 5, h |-> 2]      \* (0.5, 1.5) .. (3, 2.5)

Template(points, rects) == [points |-> points, rects |-> rects]

\* the templates given to ProcrustesTransform
Samples ==
    { Template(<<>>, <<R1, R2>>),
      Template(<<P1>>, <<R1, R2>>),
      Template(<<P3>>, <<R2>>),
      Template(<<P1, P3>>, <<R1>>) }

RECURSIVE SeqsUpTo(_, _)
SeqsUpTo(S, n) ==
    IF n = 0 THEN {<<>>}
    ELSE LET shorter == SeqsUpTo(S, n - 1)
         IN shorter \cup {Append(q, e) : q \in shorter, e \in S}

TrainLists == SeqsUpTo(Samples, MaxTrain)

\* QRectF::topLeft, topRight, bottomLeft, bottomRight
Corners(r) ==
    << <<r.x, r.y>>, <<r.x + r.w, r.y>>, <<r.x, r.y + r.h>>, <<r.x + r.w, r.y + r.h>> >>

\* a faulty variant: the corners of the last rectangle
RectCornersLast(rects) == Corners(rects[Len(rects)])

\* the four points appended to the landmarks: those of rects[0]
RectCorners(rects) == Corners(rects[1])

\* points.append(rects[0]. ...) x 4
Augmented(t) == t.points \o RectCorners(t.rects)

\* qWarning("More than one rect in training data templates.")
MoreThanOneRect(t) == Len(t.rects) > 1

----------------------------------------------------------------------------
(* Centering and scaling of a point list *)

\* cv::mean of the points, in fixed point
Centroid(pts) ==
    << Div(Prec * SumSeq([i \in 1..Len(pts) |-> pts[i][1]]), Len(pts)),
       Div(Prec * SumSeq([i \in 1..Len(pts) |-> pts[i][2]]), Len(pts)) >>

\* points[i] -= mean
Centered(pts) ==
    LET c == Centroid(pts)
    IN [i \in 1..Len(pts) |-> <<Prec * pts[i][1] - c[1], Prec * pts[i][2] - c[2]>>]

\* cv::norm of the centred points (L2 over all coordinates), in fixed point
Norm(cpts) ==
    ISqrt(SumSeq([i \in 1..Len(cpts) |-> cpts[i][1] * cpts[i][1] + cpts[i][2] * cpts[i][2]]))

\* train: points[i] /= norm
Normalized(pts) ==
    LET cp == Centered(pts)
        nm == Norm(cp)
    IN [i \in 1..Len(pts) |-> <<Div(Prec * cp[i][1], nm), Div(Prec * cp[i][2], nm)>>]

----------------------------------------------------------------------------
(* Undefined behaviour.  The code checks neither that a training list       *)
(* yields a shape, nor that shapes have equal lengths, nor that the sample  *)
(* fits meanShape.  A build with assertions (Q_ASSERT, eigen_assert) ends   *)
(* the process there ("abort"); a build without them reads out of range     *)
(* and goes on with whatever the read delivers ("ub").                      *)

\* values an out-of-range read may deliver
Unspecified == {0, 7}

\* matrices an out-of-range read of a whole shape may lead to
UnspecifiedShapes == {<<>>} \cup { << <<g, g>> >> : g \in Unspecified }

----------------------------------------------------------------------------
(* ProcrustesTransform::train *)

\* the first loop: every template with points, augmented and normalized
RECURSIVE NormalizedPoints(_)
NormalizedPoints(data) ==
    IF data = <<>> THEN <<>>
    ELSE LET t == Head(data)
         IN IF t.points = <<>> THEN NormalizedPoints(Tail(data))
            ELSE <<Normalized(Augmented(t))>> \o NormalizedPoints(Tail(data))

\* whether the first loop reaches the qWarning
TrainWarned(data) ==
    \E j \in 1..Len(data) : data[j].points # <<>> /\ MoreThanOneRect(data[j])

\* normalizedPoints[j][i]; g is what the read delivers when i is out of range
PointAt(np, j, i, g) == IF i <= Len(np[j]) THEN np[j][i] ELSE <<g, g>>

\* the second loop: row i is the sum over all shapes of point i, divided by
\* the number of shapes
ShapeBuffer(np, g) ==
    LET n == Len(np)
    IN [i \in 1..Len(np[1]) |->
          << Div(SumSeq([j \in 1..n |-> PointAt(np, j, i, g)[1]]), n),
             Div(SumSeq([j \in 1..n |-> PointAt(np, j, i, g)[2]]), n) >>]

\* a faulty variant: a MeanShape once learned is kept
NewMeanShapeKeepOld(old, shapeBuffer) == IF old = <<>> THEN shapeBuffer ELSE old

\* meanShape = shapeBuffer
NewMeanShape(old, shapeBuffer) == shapeBuffer

\* every way train(data) can end
TrainOutcomes(data) ==
    LET np == NormalizedPoints(data)
    IN IF np = <<>>
       THEN \* normalizedPoints[0] of an empty list
            {[kind |-> "abort", shape |-> <<>>]}
              \cup {[kind |-> "ub", shape |-> s] : s \in UnspecifiedShapes}
       ELSE IF \E j \in 1..Len(np) : Len(np[j]) < Len(np[1])
       THEN \* normalizedPoints[j][i] past the end of a shorter shape
            {[kind |-> "abort", shape |-> <<>>]}
              \cup {[kind |-> "ub", shape |-> ShapeBuffer(np, g)] : g \in Unspecified}
       ELSE {[kind |-> "ok", shape |-> ShapeBuffer(np, 0)]}

----------------------------------------------------------------------------
(* ProcrustesTransform::project *)

\* srcPoints(i, .) = points[i] / (norm/150.) + 50
SrcPoints(pts) ==
    LET cp == Centered(pts)
        nm == Norm(cp)
    IN [i \in 1..Len(pts) |->
          << Div(cp[i][1] * RefRadius * Prec, nm) + RefOffset * Prec,
             Div(cp[i][2] * RefRadius * Prec, nm) + RefOffset * Prec >>]

\* srcPoints.transpose() * meanShape, a 2x2 matrix
CrossCovariance(src, ms) ==
    LET e(a, b) == Div(SumSeq([i \in 1..Len(src) |-> src[i][a] * ms[i][b]]), Prec)
    IN << <<e(1, 1), e(1, 2)>>, <<e(2, 1), e(2, 2)>> >>

\* svd.matrixU() * svd.matrixV().transpose(): the orthogonal factor of M, a
\* rotation when det M >= 0 and a reflection when det M < 0 (no determinant
\* correction is made)
Rotation(M) ==
    LET a == M[1][1]
        b == M[1][2]
        c == M[2][1]
        d == M[2][2]
        rot == a * d - b * c >= 0
        p == IF rot THEN a + d ELSE a - d
        q == IF rot THEN c - b ELSE b + c
        hyp == ISqrt(p * p + q * q)
        co == Div(p * Prec, hyp)
        si == Div(q * Prec, hyp)
    IN IF hyp = 0 THEN << <<Prec, 0>>, <<0, Prec>> >>
       ELSE IF rot THEN << <<co, -si>>, <<si, co>> >>
       ELSE << <<co, si>>, <<si, -co>> >>

\* the matrix the product reads when meanShape has not Len(pts) rows: its
\* first rows, then whatever lies behind it
ReadRows(ms, n, g) == [i \in 1..n |-> IF i <= Len(ms) THEN ms[i] ELSE <<g, g>>]

\* dst.file.set("Procrustes_...", ...)
Fields(pts, ms) ==
    LET R == Rotation(CrossCovariance(SrcPoints(pts), ms))
        mean == Centroid(pts)
    IN [Procrustes_0_0 |-> R[1][1], Procrustes_1_0 |-> R[2][1],
        Procrustes_1_1 |-> R[2][2], Procrustes_0_1 |-> R[1][2],
        Procrustes_mean_0 |-> mean[1], Procrustes_mean_1 |-> mean[2],
        Procrustes_norm |-> Norm(Centered(pts))]

NoFields == [x \in {} |-> 0]

\* every way project(t) can end with MeanShape ms
ProjectOutcomes(t, ms) ==
    LET pts == Augmented(t)
    IN IF Len(ms) = Len(pts)
       THEN {[kind |-> "ok", attached |-> TRUE, fields |-> Fields(pts, ms)]}
       ELSE \* the product of a 2 x Len(pts) and a Len(ms) x 2 matrix
            {[kind |-> "abort", attached |-> FALSE, fields |-> NoFields]}
              \cup {[kind |-> "ub", attached |-> TRUE,
                     fields |-> Fields(pts, ReadRows(ms, Len(pts), g))] : g \in Unspecified}

----------------------------------------------------------------------------
(* store and load: the matrix as a blob, its dimensions then its            *)
(* coefficients row by row                                                  *)

MatCols(m) == IF m = <<>> THEN 0 ELSE Len(m[1])

RECURSIVE Flatten(_)
Flatten(m) == IF m = <<>> THEN <<>> ELSE Head(m) \o Flatten(Tail(m))

\* stream << meanShape
Encode(m) == <<Len(m), MatCols(m)>> \o Flatten(m)

\* stream >> meanShape
Decode(s) ==
    LET rows == s[1]
        cols == s[2]
    IN [i \in 1..rows |-> [j \in 1..cols |-> s[2 + (i - 1) * cols + j]]]

----------------------------------------------------------------------------
(* DelaunayTransform::project: the image and the mesh *)

Cols == 4               \* src.m().cols
Rows == 4               \* src.m().rows
White == 255            \* Scalar(255,255,255), and the largest 8-bit value
MaxLandmarks == 2       \* landmarks of a template given to DelaunayTransform
MaxRects == 2           \* rectangles of a template given to DelaunayTransform

Pixels == {<<x, y>> : x \in 0..(Cols - 1), y \in 0..(Rows - 1)}

\* src.m(), one 8-bit channel
SrcImage == [p \in Pixels |-> 40 * (p[1] + 1) + 10 * p[2]]

\* Mat::zeros
Zeros == [p \in Pixels |-> 0]

PLess(a, b) == a[1] < b[1] \/ (a[1] = b[1] /\ a[2] < b[2])

\* twice the signed area of the triangle a, b, c
Orient(a, b, c) == (b[1] - a[1]) * (c[2] - a[2]) - (b[2] - a[2]) * (c[1] - a[1])

\* d lies strictly inside the circle through a, b, c
InCircle(a, b, c, d) ==
    LET ax == a[1] - d[1]
        ay == a[2] - d[2]
        bx == b[1] - d[1]
        by == b[2] - d[2]
        cx == c[1] - d[1]
        cy == c[2] - d[2]
        det == (ax * ax + ay * ay) * (bx * cy - by * cx)
               - (bx * bx + by * by) * (ax * cy - ay * cx)
               + (cx * cx + cy * cy) * (ax * by - ay * bx)
        o == Orient(a, b, c)
    IN (det > 0 /\ o > 0) \/ (det < 0 /\ o < 0)

Max(a, b) == IF a > b THEN a ELSE b

\* Subdiv2D(Rect(0,0,cols,rows)): the three outer vertices of the
\* subdivision, at 3 * max(cols, rows) from the origin
OuterVertices ==
    LET big == 3 * Max(Cols, Rows) * Sub
    IN {<<big, 0>>, <<0, big>>, <<-big, -big>>}

\* subdiv.insert(p) raises an error for a point outside the rectangle
Insertable(p) == 0 <= p[1] /\ p[1] < Cols * Sub /\ 0 <= p[2] /\ p[2] < Rows * Sub

RECURSIVE SetToSeq(_)
SetToSeq(S) ==
    IF S = {} THEN <<>>
    ELSE LET e == CHOOSE e \in S : TRUE IN <<e>> \o SetToSeq(S \ {e})

\* subdiv.getTriangleList: the faces of the Delaunay subdivision of the
\* inserted points and the outer vertices, each a triple of vertices no
\* other vertex lies inside the circumcircle of.  (When more than three
\* vertices lie on one circle the library returns the faces of one of the
\* possible subdivisions; this is the list of the faces of all of them.)
TriangleList(points) ==
    LET sites == {points[i] : i \in 1..Len(points)} \cup OuterVertices
    IN SetToSeq({ <<a, b, c>> \in sites \X sites \X sites :
                    /\ PLess(a, b) /\ PLess(b, c)
                    /\ Orient(a, b, c) # 0
                    /\ \A d \in sites \ {a, b, c} : ~InCircle(a, b, c, d) })

\* cvRound of v / unit: to the nearest integer, halves to the even one
Round(v, unit) ==
    LET q == v \div unit
        r == v - q * unit
    IN IF 2 * r < unit THEN q
       ELSE IF 2 * r > unit THEN q + 1
       ELSE IF q % 2 = 0 THEN q ELSE q + 1

\* pt[j] = Point(cvRound(t[2j]), cvRound(t[2j+1]))
RoundedTriangle(t) == [j \in 1..3 |-> <<Round(t[j][1], Sub), Round(t[j][2], Sub)>>]

\* the test of the filter loop
Inside(pt) == \A j \in 1..3 :
    ~(pt[j][1] > Cols \/ pt[j][2] > Rows \/ pt[j][1] <= 0 \/ pt[j][2] <= 0)

\* the filter loop: the rounded triangles that pass the test, in list order
RECURSIVE ValidTriangles(_)
ValidTriangles(triangleList) ==
    IF triangleList = <<>> THEN <<>>
    ELSE LET pt == RoundedTriangle(Head(triangleList))
         IN (IF Inside(pt) THEN <<pt>> ELSE <<>>) \o ValidTriangles(Tail(triangleList))

----------------------------------------------------------------------------
(* DelaunayTransform::project: drawing and warping *)

\* the Procrustes_* values src.file carries, in fixed point
FileFields(r00, r10, r11, r01, mean0, mean1, norm) ==
    [Procrustes_0_0 |-> r00, Procrustes_1_0 |-> r10, Procrustes_1_1 |-> r11,
     Procrustes_0_1 |-> r01, Procrustes_mean_0 |-> mean0, Procrustes_mean_1 |-> mean1,
     Procrustes_norm |-> norm]

FieldChoices ==
    { FileFields(100, 0, 100, 0, 5000, 5000, 15000),    \* the identity warp
      FileFields(0, 100, 0, 100, 5000, 5000, 15000),    \* x and y exchanged
      FileFields(100, 0, 100, 0, 5100, 5000, 15000),    \* one pixel to the left
      FileFields(100, 0, 100, 0, 10000, 10000, 30000) } \* half the size

\* the pixels cv::line colours between a and b: those of the image nearest
\* to the segment, one per step along its longer axis
LinePixels(a, b) ==
    LET dx == b[1] - a[1]
        dy == b[2] - a[2]
        long == Max(Abs(dx), Abs(dy))
    IN { p \in Pixels :
           /\ (a[1] <= p[1] /\ p[1] <= b[1]) \/ (b[1] <= p[1] /\ p[1] <= a[1])
           /\ (a[2] <= p[2] /\ p[2] <= b[2]) \/ (b[2] <= p[2] /\ p[2] <= a[2])
           /\ 2 * Abs(dx * (p[2] - a[2]) - dy * (p[1] - a[1])) <= long }

\* the three line() calls for one triangle, Scalar(0,0,0)
DrawTriangle(img, tr) ==
    LET edges == LinePixels(tr[1], tr[2]) \cup LinePixels(tr[2], tr[3])
                   \cup LinePixels(tr[3], tr[1])
    IN [p \in Pixels |-> IF p \in edges THEN 0 ELSE img[p]]

\* dst.m() = src.m().clone(); if (draw) the edges of every valid triangle
RECURSIVE Drawn(_, _)
Drawn(img, triangles) ==
    IF triangles = <<>> THEN img
    ELSE Drawn(DrawTriangle(img, Head(triangles)), Tail(triangles))

\* dstMat = srcPoints * R, srcPoints(j, .) = (triangle[j] - mean) / (norm/150.) + 50
DstPoints(tr, f) ==
    LET sx(j) == Div((tr[j][1] * Prec - f.Procrustes_mean_0) * RefRadius * Prec,
                     f.Procrustes_norm) + RefOffset * Prec
        sy(j) == Div((tr[j][2] * Prec - f.Procrustes_mean_1) * RefRadius * Prec,
                     f.Procrustes_norm) + RefOffset * Prec
    IN [j \in 1..3 |->
          << Div(sx(j) * f.Procrustes_0_0 + sy(j) * f.Procrustes_1_0, Prec),
             Div(sx(j) * f.Procrustes_0_1 + sy(j) * f.Procrustes_1_1, Prec) >>]

\* maskPoints[0][j] = dstPoints[j]: Point2f to Point rounds
MaskPoints(dp) == [j \in 1..3 |-> <<Round(dp[j][1], Prec), Round(dp[j][2], Prec)>>]

\* fillConvexPoly(mask, ppt, 3, Scalar(255,255,255), 8) on a zero mask: the
\* pixels of the image in the closed triangle
Mask(mp) ==
    LET in(p) ==
          LET e1 == Orient(mp[1], mp[2], p)
              e2 == Orient(mp[2], mp[3], p)
              e3 == Orient(mp[3], mp[1], p)
          IN /\ \E j \in 1..3 : mp[j][1] <= p[1]
             /\ \E j \in 1..3 : mp[j][1] >= p[1]
             /\ \E j \in 1..3 : mp[j][2] <= p[2]
             /\ \E j \in 1..3 : mp[j][2] >= p[2]
             /\ \/ (e1 >= 0 /\ e2 >= 0 /\ e3 >= 0)
                \/ (e1 <= 0 /\ e2 <= 0 /\ e3 <= 0)
    IN [p \in Pixels |-> IF in(p) THEN White ELSE 0]

\* warpAffine(src, buffer, getAffineTransform(test, dstPoints), size): every
\* pixel of buffer takes the source pixel the inverse of the affine map
\* sends it to (the nearest one; the library interpolates between the four
\* nearest), 0 when that lies outside the source.  When the three points of
\* either triangle lie on one line the map has no inverse and the library
\* samples src(0,0) everywhere.
WarpAffine(src, tr, dp) ==
    LET area == Orient(dp[1], dp[2], dp[3])
        s == IF area < 0 THEN -1 ELSE 1
        at(q) ==
          LET Q == <<q[1] * Prec, q[2] * Prec>>
              w1 == s * Orient(Q, dp[2], dp[3])
              w2 == s * Orient(dp[1], Q, dp[3])
              w3 == s * Orient(dp[1], dp[2], Q)
              x == Div(w1 * tr[1][1] + w2 * tr[2][1] + w3 * tr[3][1], s * area)
              y == Div(w1 * tr[1][2] + w2 * tr[2][2] + w3 * tr[3][2], s * area)
          IN IF <<x, y>> \in Pixels THEN src[<<x, y>>] ELSE 0
    IN IF area = 0 \/ Orient(tr[1], tr[2], tr[3]) = 0
       THEN [q \in Pixels |-> src[<<0, 0>>]]
       ELSE [q \in Pixels |-> at(q)]

RECURSIVE BitAnd(_, _)
BitAnd(a, b) ==
    IF a = 0 \/ b = 0 THEN 0
    ELSE (a % 2) * (b % 2) + 2 * BitAnd(a \div 2, b \div 2)

\* bitwise_and(buffer, mask, output)
Output(buffer, mask) == [p \in Pixels |-> BitAnd(buffer[p], mask[p])]

\* dst.m() += output, saturating at the largest 8-bit value
Added(dst, output) ==
    [p \in Pixels |-> LET sum == dst[p] + output[p]
                      IN IF sum > White THEN White ELSE sum]

\* the warp loop over validTriangles
RECURSIVE Warped(_, _, _, _)
Warped(dst, src, triangles, f) ==
    IF triangles = <<>> THEN dst
    ELSE LET tr == Head(triangles)
             dp == DstPoints(tr, f)
             output == Output(WarpAffine(src, tr, dp), Mask(MaskPoints(dp)))
         IN Warped(Added(dst, output), src, Tail(triangles), f)

\* a faulty variant: the warp composes onto the image it already holds
CanvasOnDrawn(src, drawn) == drawn

\* dst.m() = Mat::zeros(rows, cols, type), replacing the clone drawn on
Canvas(src, drawn) == Zeros

\* the destination masks of the triangles, one per triangle
DestinationMasks(triangles, f) ==
    [k \in 1..Len(triangles) |-> Mask(MaskPoints(DstPoints(triangles[k], f)))]

\* project(src, dst) for a template t carrying the fields f
DelaunayResult(t, f, drawing) ==
    LET points == Augmented(t)
    IN IF \E i \in 1..Len(points) : ~Insertable(points[i])
       THEN [kind |-> "error", validTriangles |-> <<>>, dst |-> Zeros]
       ELSE LET valid == ValidTriangles(TriangleList(points))
                drawn == IF drawing THEN Drawn(SrcImage, valid) ELSE SrcImage
            IN [kind |-> "ok", validTriangles |-> valid,
                dst |-> Warped(Canvas(SrcImage, drawn), SrcImage, valid, f)]

----------------------------------------------------------------------------
(* ForestInductionTransform: the forest and its trees.  A tree is the set   *)
(* of its nodes, a node the path from the root to it (0: left, 1: right).   *)
(* Every node of a CvDTree has two children or none.  The model keeps the   *)
(* property useRegressionValue at its default, false.                       *)

MaxTrees == 2           \* trees of one forest
MaxRebuilds == 2        \* train and load calls made on one transform object

\* a root that was never split
Stump == {<<>>}

\* root (left: an inner node (left: leaf, right: an inner node with two
\* leaves), right: leaf)
Zigzag == {<<>>, <<0>>, <<1>>, <<0, 0>>, <<0, 1>>, <<0, 1, 0>>, <<0, 1, 1>>}

TreeShapes == {Stump, Zigzag}

\* the forests trainForest or loadModel can leave in forest
Forests == SeqsUpTo(TreeShapes, MaxTrees) \ {<<>>}

\* a null pointer
Null == [gen |-> 0, tree |-> 0, path |-> <<>>]

\* the CvDTreeNode at path of tree k of the g-th forest the object holds
Ptr(g, k, path) == [gen |-> g, tree |-> k, path |-> path]

\* n->left, n a node of the forest f
Left(f, n) ==
    IF Append(n.path, 0) \in f[n.tree] THEN Ptr(n.gen, n.tree, Append(n.path, 0)) ELSE Null

\* n->right
Right(f, n) ==
    IF Append(n.path, 1) \in f[n.tree] THEN Ptr(n.gen, n.tree, Append(n.path, 1)) ELSE Null

\* n->parent
Parent(n) ==
    IF n.path = <<>> THEN Null ELSE Ptr(n.gen, n.tree, SubSeq(n.path, 1, Len(n.path) - 1))

\* the nodes forest.get_tree(i)->predict can return
Leaves(t) == {n \in t : Append(n, 0) \notin t}

\* the leaf each tree of f predicts for one sample
Predictions(f) ==
    {pr \in [1..Len(f) -> UNION TreeShapes] : \A k \in 1..Len(f) : pr[k] \in Leaves(f[k])}

\* nodes[i].indexOf(p), counted from 0, -1 when p is not in the list.  The
\* nodes of a forest that was replaced are freed: a pointer to one of them
\* compares equal to a node of the current forest only if the allocator
\* gave that node the same address (reuse).
IndexOf(list, p, reuse) ==
    LET same(q) == IF reuse THEN q.tree = p.tree /\ q.path = p.path ELSE q = p
        hits == {j \in 1..Len(list) : same(list[j])}
    IN IF hits = {} THEN -1 ELSE (CHOOSE j \in hits : \A h \in hits : j <= h) - 1

\* the loop of project from i = k on: for each i the position offset+index
\* it writes; tree is FALSE where forest.get_tree(i) is no tree (i is not
\* below the tree count), and the loop goes no further
RECURSIVE Positions(_, _, _, _, _, _, _)
Positions(ns, f, g, pred, reuse, k, offset) ==
    IF k > Len(ns) THEN <<>>
    ELSE IF k > Len(f) THEN <<[tree |-> FALSE, pos |-> 0]>>
    ELSE <<[tree |-> TRUE, pos |-> offset + IndexOf(ns[k], Ptr(g, k, pred[k]), reuse)]>>
           \o Positions(ns, f, g, pred, reuse, k + 1, offset + Len(ns[k]))

\* every way project can end, useRegressionValue false: responses is
\* Mat::zeros(totalSize,1) with a 1 at every position written.  A call on
\* no tree, or a write outside responses, is undefined: the process is
\* ended there ("abort") or goes on, the write landing elsewhere ("ub").
ForestProjectOutcomes(ns, f, g, size, pred, reuse) ==
    LET ps == Positions(ns, f, g, pred, reuse, 1, 0)
        inRange == \A j \in 1..Len(ps) : ps[j].tree /\ 0 <= ps[j].pos /\ ps[j].pos < size
        responses ==
            [q \in 1..size |->
                IF \E j \in 1..Len(ps) : ps[j].tree /\ ps[j].pos = q - 1 THEN 1 ELSE 0]
    IN IF inRange THEN {[kind |-> "ok", written |-> ps, responses |-> responses]}
       ELSE {[kind |-> "abort", written |-> ps, responses |-> <<>>],
             [kind |-> "ub", written |-> ps, responses |-> responses]}

----------------------------------------------------------------------------
(* The calls *)

\* before: meanShape when the call began; defined: no call had gone through
\* undefined behaviour when it began
NoCall == [op |-> "new", arg |-> <<>>, before |-> <<>>, defined |-> TRUE,
           warned |-> FALSE, out |-> [kind |-> "ok"]]

Init ==
    /\ obj \in {"Procrustes", "Delaunay", "Forest"}
    /\ draw \in (IF obj = "Delaunay" THEN BOOLEAN ELSE {FALSE})
    /\ meanShape = <<>>
    /\ stream = <<>>
    /\ stored = <<>>
    /\ trained = FALSE
    /\ tainted = FALSE
    /\ crashed = FALSE
    /\ calls = 0
    /\ call = NoCall
    /\ forest = <<>>
    /\ gen = 0
    /\ nodes = <<>>
    /\ totalSize \in (IF obj = "Forest" THEN Unspecified ELSE {0})
    /\ sizeAtStart = totalSize
    /\ pc = "idle"
    /\ treeIndex = 0
    /\ node = Null
    /\ parent = Null

Callable(o) == obj = o /\ ~crashed /\ calls < MaxCalls

\* every training list with every way train can end on it
TrainRuns ==
    UNION { {[data |-> data, warned |-> TrainWarned(data), out |-> o] :
                o \in TrainOutcomes(data)} : data \in TrainLists }

Train ==
    /\ Callable("Procrustes")
    /\ \E run \in TrainRuns :
          /\ meanShape' = IF run.out.kind = "abort" THEN meanShape
                          ELSE NewMeanShape(meanShape, run.out.shape)
          /\ trained' = (trained \/ run.out.kind # "abort")
          /\ tainted' = (tainted \/ run.out.kind = "ub")
          /\ crashed' = (run.out.kind = "abort")
          /\ call' = [op |-> "train", arg |-> run.data, before |-> meanShape,
                      defined |-> ~tainted, warned |-> run.warned, out |-> run.out]
    /\ calls' = calls + 1
    /\ UNCHANGED <<obj, draw, stream, stored, forestVars>>

Project ==
    /\ Callable("Procrustes")
    /\ \E t \in Samples : \E o \in ProjectOutcomes(t, meanShape) :
          /\ tainted' = (tainted \/ o.kind = "ub")
          /\ crashed' = (o.kind = "abort")
          /\ call' = [op |-> "project", arg |-> t, before |-> meanShape,
                      defined |-> ~tainted, warned |-> MoreThanOneRect(t), out |-> o]
    /\ calls' = calls + 1
    /\ UNCHANGED <<obj, draw, meanShape, stream, stored, trained, forestVars>>

Store ==
    /\ Callable("Procrustes")
    /\ stream' = Encode(meanShape)
    /\ stored' = meanShape
    /\ call' = [op |-> "store", arg |-> <<>>, before |-> meanShape, defined |-> ~tainted,
                warned |-> FALSE, out |-> [kind |-> "ok"]]
    /\ calls' = calls + 1
    /\ UNCHANGED <<obj, draw, meanShape, trained, tainted, crashed, forestVars>>

Load ==
    /\ Callable("Procrustes")
    /\ stream # <<>>
    /\ meanShape' = Decode(stream)
    /\ trained' = TRUE
    /\ call' = [op |-> "load", arg |-> <<>>, before |-> meanShape, defined |-> ~tainted,
                warned |-> FALSE, out |-> [kind |-> "ok"]]
    /\ calls' = calls + 1
    /\ UNCHANGED <<obj, draw, stream, stored, tainted, crashed, forestVars>>

\* the templates given to DelaunayTransform: up to MaxLandmarks landmarks
\* and one to MaxRects rectangles
LandmarkLists ==
    { q \in SeqsUpTo({P1, P2, P3, P4}, MaxLandmarks) :
        \A i \in 1..Len(q) : \A j \in 1..Len(q) : i < j => PLess(q[i], q[j]) }

RectLists ==
    { q \in SeqsUpTo({R1, R2, R3}, MaxRects) :
        /\ q # <<>>
        /\ \A i \in 1..Len(q) : \A j \in 1..Len(q) : i < j => q[i] # q[j] }

\* DelaunayTransform::project.  The method is const and the object has no
\* field but draw, so every call starts from the state after construction:
\* a run makes one call.
DelaunayProject ==
    /\ obj = "Delaunay"
    /\ calls = 0
    /\ \E ps \in LandmarkLists : \E rs \in RectLists : \E f \in FieldChoices :
          LET t == Template(ps, rs)
          IN call' = [op |-> "delaunay", arg |-> [t |-> t, f |-> f], before |-> <<>>,
                      defined |-> ~tainted, warned |-> MoreThanOneRect(t),
                      out |-> DelaunayResult(t, f, draw)]
    /\ calls' = calls + 1
    /\ UNCHANGED <<obj, draw, meanShape, stream, stored, trained, tainted, crashed,
                   forestVars>>

NextProcrustes == Train \/ Project \/ Store \/ Load

InitProcrustes == Init /\ obj = "Procrustes"

SpecProcrustes == InitProcrustes /\ [][NextProcrustes]_vars

NextDelaunay == DelaunayProject

InitDelaunay == Init /\ obj = "Delaunay"

SpecDelaunay == InitDelaunay /\ [][NextDelaunay]_vars

\* the two transforms of landmarks.cpp
NextLandmarks == NextProcrustes \/ NextDelaunay

InitLandmarks == Init /\ obj \in {"Procrustes", "Delaunay"}

SpecLandmarks == InitLandmarks /\ [][NextLandmarks]_vars

----------------------------------------------------------------------------
(* ForestInductionTransform: train, load, fillNodes step by step, project *)

landmarkVars == <<obj, draw, meanShape, stream, stored, trained, tainted, calls>>

ForestIdle == obj = "Forest" /\ pc = "idle" /\ ~crashed

\* trainForest(data) or loadModel(forest, stream) leaves a new forest in
\* forest; then fillNodes() is entered, at i = 0
Rebuild(op) ==
    /\ ForestIdle
    /\ gen < MaxRebuilds
    /\ \E f \in Forests :
          /\ forest' = f
          /\ call' = [op |-> op, arg |-> f,
                      before |-> [nodes |-> nodes, totalSize |-> totalSize],
                      defined |-> ~tainted, warned |-> FALSE, out |-> [kind |-> "running"]]
    /\ gen' = gen + 1
    /\ treeIndex' = 1
    /\ pc' = "for"
    /\ UNCHANGED <<landmarkVars, crashed, nodes, totalSize, sizeAtStart, node, parent>>

ForestTrain == Rebuild("forestTrain")

ForestLoad == Rebuild("forestLoad")

\* i < forest.get_tree_count(): nodes.append(QList()), node = root of tree i
FillTree ==
    /\ obj = "Forest" /\ pc = "for"
    /\ treeIndex <= Len(forest)
    /\ nodes' = Append(nodes, <<>>)
    /\ node' = Ptr(gen, treeIndex, <<>>)
    /\ pc' = "descend"
    /\ UNCHANGED <<landmarkVars, crashed, call, forest, gen, totalSize, sizeAtStart,
                   treeIndex, parent>>

\* the loop over the trees is over: fillNodes, and the call, return
FillReturn ==
    /\ obj = "Forest" /\ pc = "for"
    /\ treeIndex > Len(forest)
    /\ pc' = "idle"
    /\ call' = [call EXCEPT !.out = [kind |-> "ok"]]
    /\ UNCHANGED <<landmarkVars, crashed, forest, gen, nodes, totalSize, sizeAtStart,
                   treeIndex, node, parent>>

\* node->left is set: node = node->left
Descend ==
    /\ obj = "Forest" /\ pc = "descend"
    /\ Left(forest, node) # Null
    /\ node' = Left(forest, node)
    /\ UNCHANGED <<landmarkVars, crashed, call, forest, gen, nodes, totalSize, sizeAtStart,
                   pc, treeIndex, parent>>

\* !node->left: break, nodes.last().append(node), parent = node->parent
AppendNode ==
    /\ obj = "Forest" /\ pc = "descend"
    /\ Left(forest, node) = Null
    /\ nodes' = [nodes EXCEPT ![Len(nodes)] = Append(@, node)]
    /\ parent' = Parent(node)
    /\ pc' = "climb"
    /\ UNCHANGED <<landmarkVars, crashed, call, forest, gen, totalSize, sizeAtStart,
                   treeIndex, node>>

\* parent && parent->right == node: node = parent, parent = parent->parent
Climb ==
    /\ obj = "Forest" /\ pc = "climb"
    /\ parent # Null /\ Right(forest, parent) = node
    /\ node' = parent
    /\ parent' = Parent(parent)
    /\ UNCHANGED <<landmarkVars, crashed, call, forest, gen, nodes, totalSize, sizeAtStart,
                   pc, treeIndex>>

\* node is the left child of parent: node = parent->right
GoRight ==
    /\ obj = "Forest" /\ pc = "climb"
    /\ parent # Null /\ Right(forest, parent) # node
    /\ node' = Right(forest, parent)
    /\ pc' = "descend"
    /\ UNCHANGED <<landmarkVars, crashed, call, forest, gen, nodes, totalSize, sizeAtStart,
                   treeIndex, parent>>

\* !parent: break, totalSize += nodes.last().size(), i++
SumTree ==
    /\ obj = "Forest" /\ pc = "climb"
    /\ parent = Null
    /\ totalSize' = totalSize + Len(nodes[Len(nodes)])
    /\ treeIndex' = treeIndex + 1
    /\ pc' = "for"
    /\ UNCHANGED <<landmarkVars, crashed, call, forest, gen, nodes, sizeAtStart, node, parent>>

\* project: every tree predicts a leaf for the sample
ForestProject ==
    /\ ForestIdle
    /\ \E pred \in Predictions(forest) : \E reuse \in BOOLEAN :
       \E o \in ForestProjectOutcomes(nodes, forest, gen, totalSize, pred, reuse) :
          /\ crashed' = (o.kind = "abort")
          /\ call' = [op |-> "forestProject", arg |-> pred,
                      before |-> [nodes |-> nodes, totalSize |-> totalSize],
                      defined |-> ~tainted, warned |-> FALSE, out |-> o]
    /\ UNCHANGED <<landmarkVars, forestVars>>

NextForest ==
    \/ ForestTrain \/ ForestLoad
    \/ FillTree \/ FillReturn \/ Descend \/ AppendNode \/ Climb \/ GoRight \/ SumTree
    \/ ForestProject

InitForest == Init /\ obj = "Forest"

SpecForest == InitForest /\ [][NextForest]_vars

Next == NextProcrustes \/ NextDelaunay \/ NextForest

Spec == Init /\ [][Next]_vars

----------------------------------------------------------------------------
(* What the claims speak of *)

\* the template with only its first rectangle
FirstRectOnly(t) == Template(t.points, <<t.rects[1]>>)

FirstRectOnlyList(data) == [j \in 1..Len(data) |-> FirstRectOnly(data[j])]

\* the templates of a training list that have landmarks
Collected(data) == {j \in 1..Len(data) : Len(data[j].points) > 0}

\* the index-wise average of the normalized shapes of the templates that
\* have landmarks: each coordinate summed over them and divided once by
\* their number
AverageShape(data) ==
    LET idx == Collected(data)
        shape(j) == Normalized(data[j].points \o Corners(data[j].rects[1]))
        first == CHOOSE j \in idx : \A k \in idx : j <= k
        total(i, c) ==
            SumSeq([j \in 1..Len(data) |-> IF j \in idx THEN shape(j)[i][c] ELSE 0])
    IN [i \in 1..Len(shape(first)) |->
          <<Div(total(i, 1), Cardinality(idx)), Div(total(i, 2), Cardinality(idx))>>]

\* the templates with landmarks do not all have the same number of them
CountsDiffer(data) ==
    \E j \in Collected(data) : \E k \in Collected(data) :
        Len(data[j].points) # Len(data[k].points)

Vertices(tr) == {tr[1], tr[2], tr[3]}

----------------------------------------------------------------------------
(* C1 *)

\* C1: every triangle kept in validTriangles has its three rounded vertices
\* strictly inside the image, 0 < x < cols and 0 < y < rows.
C1_VerticesStrictlyInside ==
    call.op = "delaunay" =>
        \A k \in 1..Len(call.out.validTriangles) :
            \A v \in Vertices(call.out.validTriangles[k]) :
                0 < v[1] /\ v[1] < Cols /\ 0 < v[2] /\ v[2] < Rows

----------------------------------------------------------------------------
(* C2 *)

\* C2: a project called before any train or load has set MeanShape fails
\* with a fatal error and attaches no Procrustes_* field.  (Stated for the
\* templates that have landmarks.)
C2_UntrainedProjectFails ==
    (call.op = "project" /\ ~trained /\ call.arg.points # <<>>)
        => (crashed /\ ~call.out.attached)

----------------------------------------------------------------------------
(* C3 *)

\* C3: a project of a sample whose augmented point count differs from the
\* rows of MeanShape fails for that sample only: no field is attached, the
\* process goes on, MeanShape is unchanged.  (Stated for the templates that
\* have landmarks and a MeanShape learned in defined behaviour.)
C3_MismatchFailsSampleOnly ==
    (/\ call.op = "project" /\ trained /\ call.defined
     /\ call.arg.points # <<>>
     /\ Len(call.before) # Len(call.arg.points) + 4)
        => (~call.out.attached /\ ~crashed /\ meanShape = call.before)

----------------------------------------------------------------------------
(* C4 *)

\* C4: a project of a sample with no landmarks fails for that sample and
\* attaches no Procrustes_* field.  (Stated for a MeanShape learned in
\* defined behaviour.)
C4_EmptyLandmarksAttachNothing ==
    (call.op = "project" /\ trained /\ call.defined /\ call.arg.points = <<>>)
        => ~call.out.attached

----------------------------------------------------------------------------
(* C5 *)

\* C5: train never fails on templates without landmarks, whatever the
\* training list, and leaves in MeanShape the average of the normalized
\* shapes of the templates that have landmarks.  (Stated for the training
\* lists that hold a template and whose shapes have equal point counts.)
C5_TrainAveragesCollected ==
    (call.op = "train" /\ call.arg # <<>> /\ ~CountsDiffer(call.arg))
        => (call.out.kind = "ok" /\ meanShape = AverageShape(call.arg))

----------------------------------------------------------------------------
(* C6 *)

\* C6: when the collected shapes differ in point count, train reports it
\* and installs no MeanShape.
C6_UnequalCountsRejected ==
    (call.op = "train" /\ CountsDiffer(call.arg))
        => (call.out.kind = "abort" /\ meanShape = call.before)

----------------------------------------------------------------------------
(* C7 *)

\* C7, as claimed: for a template with more than one rectangle, train,
\* project and DelaunayTransform.project warn and end exactly as they end
\* for the template with only its first rectangle.  (Stated for the trains
\* that complete.)
C7_WarnsForEveryExtraRect ==
    /\ (call.op = "train" /\ call.out.kind = "ok") =>
          /\ call.out \in TrainOutcomes(FirstRectOnlyList(call.arg))
          /\ (\E j \in 1..Len(call.arg) : Len(call.arg[j].rects) > 1) => call.warned
    /\ call.op = "project" =>
          /\ call.out \in ProjectOutcomes(FirstRectOnly(call.arg), call.before)
          /\ Len(call.arg.rects) > 1 => call.warned
    /\ call.op = "delaunay" =>
          /\ call.out = DelaunayResult(FirstRectOnly(call.arg.t), call.arg.f, draw)
          /\ Len(call.arg.t.rects) > 1 => call.warned

\* C7, amended: as claimed, except that train warns only for the templates
\* it does not skip (those that have landmarks).
C7_FirstRectOnly ==
    /\ call.op = "train" =>
          /\ call.out \in TrainOutcomes(FirstRectOnlyList(call.arg))
          /\ (\E j \in Collected(call.arg) : Len(call.arg[j].rects) > 1) <=> call.warned
    /\ call.op = "project" =>
          /\ call.out \in ProjectOutcomes(FirstRectOnly(call.arg), call.before)
          /\ Len(call.arg.rects) > 1 <=> call.warned
    /\ call.op = "delaunay" =>
          /\ call.out = DelaunayResult(FirstRectOnly(call.arg.t), call.arg.f, draw)
          /\ Len(call.arg.t.rects) > 1 <=> call.warned

\* a call on a template with two rectangles has ended normally and warned
C7_Witness ==
    /\ call.warned
    /\ call.out.kind = "ok"
    /\ \/ call.op = "train" /\ call.arg # FirstRectOnlyList(call.arg) /\ meanShape # <<>>
       \/ call.op = "project" /\ call.out.attached
       \/ call.op = "delaunay" /\ call.out.validTriangles # <<>>
            /\ call.arg.t.rects[Len(call.arg.t.rects)] # call.arg.t.rects[1]

----------------------------------------------------------------------------
(* C8 *)

\* C8: after DelaunayTransform.project every pixel that lies in the
\* destination mask of no kept triangle is zero, with draw on or off.
C8_OutsideMasksZero ==
    (call.op = "delaunay" /\ call.out.kind = "ok") =>
        LET masks == DestinationMasks(call.out.validTriangles, call.arg.f)
        IN \A p \in Pixels :
              (\A k \in 1..Len(masks) : masks[k][p] = 0) => call.out.dst[p] = 0

\* with draw on, triangles were kept and composited, and pixels remain
\* outside all their masks
C8_Witness ==
    /\ call.op = "delaunay" /\ draw /\ call.out.kind = "ok"
    /\ call.out.validTriangles # <<>>
    /\ Len(call.out.validTriangles) < Len(TriangleList(Augmented(call.arg.t)))
    /\ \E p \in Pixels : call.out.dst[p] # 0
    /\ LET masks == DestinationMasks(call.out.validTriangles, call.arg.f)
       IN \E p \in Pixels :
             /\ \A k \in 1..Len(masks) : masks[k][p] = 0
             /\ Drawn(SrcImage, call.out.validTriangles)[p] # 0

----------------------------------------------------------------------------
(* C9 *)

\* C9: no triangle of validTriangles has two coincident vertices.
C9_NoCoincidentVertices ==
    call.op = "delaunay" =>
        \A k \in 1..Len(call.out.validTriangles) :
            Cardinality(Vertices(call.out.validTriangles[k])) = 3

----------------------------------------------------------------------------
(* C10 *)

\* C10: MeanShape is what the most recent train or load installed: project
\* and store leave it as it was, a train that returns leaves the value
\* computed from its own training list, a load leaves the matrix that was
\* stored, and project then ends as it did with that matrix.  (A train that
\* goes on through an out-of-range read leaves one of the values that read
\* can deliver for its training list.)
C10_MeanShapeFrame ==
    /\ call.op \in {"project", "store"} => meanShape = call.before
    /\ (call.op = "train" /\ ~crashed) =>
          /\ meanShape = call.out.shape
          /\ call.out \in TrainOutcomes(call.arg)
          /\ call.out.kind = "ok" => meanShape = AverageShape(call.arg)
    /\ (call.op = "train" /\ crashed) => meanShape = call.before
    /\ call.op = "load" =>
          /\ meanShape = stored
          /\ \A t \in Samples : ProjectOutcomes(t, meanShape) = ProjectOutcomes(t, stored)

\* a load has brought back a learned MeanShape, one that some template can
\* be projected on
C10_Witness ==
    /\ call.op = "load"
    /\ call.defined
    /\ meanShape # <<>>
    /\ meanShape = stored
    /\ \E t \in Samples : \E o \in ProjectOutcomes(t, meanShape) : o.kind = "ok"

----------------------------------------------------------------------------
(* What the claims on ForestInductionTransform speak of *)

\* a train or load call is in progress or has just returned
Rebuilding == obj = "Forest" /\ call.op \in {"forestTrain", "forestLoad"}

\* the list fillNodes recorded, in the call under way, for tree k of forest
Recorded(k) == nodes[Len(call.before.nodes) + k]

\* the trees of forest whose traversal is over
Traversed == IF pc = "for" \/ pc = "idle" THEN 1..(treeIndex - 1) ELSE {}

\* path a lies to the left of path b: where they part, a goes left
LeftOf(a, b) ==
    \E j \in 1..Len(a) :
        /\ j <= Len(b)
        /\ SubSeq(a, 1, j - 1) = SubSeq(b, 1, j - 1)
        /\ a[j] = 0 /\ b[j] = 1

RECURSIVE SumLens(_)
SumLens(lists) == IF lists = <<>> THEN 0 ELSE Len(Head(lists)) + SumLens(Tail(lists))

----------------------------------------------------------------------------
(* C11 *)

\* C11: the list fillNodes records for a tree holds all the nodes of the
\* tree, each exactly once, in depth-first order (of two nodes in different
\* subtrees the one to the left comes first).
C11_ListHoldsAllNodes ==
    Rebuilding =>
        \A k \in Traversed :
            LET list == Recorded(k)
            IN /\ {list[j].path : j \in 1..Len(list)} = forest[k]
               /\ \A j \in 1..Len(list) : list[j].gen = gen /\ list[j].tree = k
               /\ \A j \in 1..Len(list) : \A h \in 1..Len(list) :
                     /\ j # h => list[j] # list[h]
                     /\ LeftOf(list[j].path, list[h].path) => j < h

----------------------------------------------------------------------------
(* C12 *)

\* C12: once a train or a load has returned, nodes holds exactly one list
\* per tree of the current forest, of nodes of that tree, and totalSize is
\* the sum of the sizes of the lists; a project then writes one 1 per tree,
\* each inside the totalSize-long responses.  (Stated for an object whose
\* totalSize held 0 after construction.)
C12_NodesMatchForest ==
    (obj = "Forest" /\ pc = "idle" /\ gen > 0 /\ sizeAtStart = 0) =>
        /\ Len(nodes) = Len(forest)
        /\ \A k \in 1..Len(nodes) : \A j \in 1..Len(nodes[k]) :
              nodes[k][j].gen = gen /\ nodes[k][j].tree = k
        /\ totalSize = SumLens(nodes)
        /\ call.op = "forestProject" =>
              /\ call.out.kind = "ok"
              /\ Len(call.out.written) = Len(forest)
              /\ SumSeq(call.out.responses) = Len(forest)

====
